---- MODULE Spec2Model ----
(***************************************************************************)
(* Model of hello_Starfield.py: a twinkling starfield on an LED strip with  *)
(* occasional comets.                                                       *)
(*                                                                          *)
(* Numbers.  The program computes with reals; the model computes with exact *)
(* fixed-point numbers: a brightness or saturation b is the integer b*One.  *)
(* One is chosen so that every product and quotient the program forms on    *)
(* the modelled inputs is exact (no rounding), and every intermediate value *)
(* stays below 2^31.  A hue is kept in degrees, i.e. in units of 1/360.     *)
(* time.sleep() only paces the frames; a sleep is the boundary of an action.*)
(***************************************************************************)
EXTENDS Integers, Sequences, FiniteSets, TLC

(* 1.0 in fixed point: 50 * 840^2, divisible by 100 and by 5*L*L, L in 1..8 *)
One == 50 * (840 * 840)

\* ---------------------------------------------------------------- bounds
\* longest strip of the program's runs
MaxLeds == 2
\* longest strip of the comet runs
MaxCometLeds == 10
\* update_stars() calls + targets resampled + comets launched, per behaviour
MaxWork == 4

\* ---------------------------------------------------------------- CONFIG
STAR_MIN_BRIGHT == (2 * One) \div 100
STAR_MAX_BRIGHT == (8 * One) \div 10
STAR_SATURATION_MAX == (5 * One) \div 100
STAR_HUE_SPREAD == 20
COMET_MIN_TRAIL == 3
COMET_MAX_TRAIL == 8
COMET_HEAD_BRIGHT_MIN == (6 * One) \div 10
COMET_HEAD_BRIGHT_MAX == One
\* 0.4 as the fraction 2/5
AFTERGLOW_MAX == <<2, 5>>
\* 220 / 360.0, in degrees
COMET_HUE == 220
COMET_SAT == One \div 10

VARIABLES
    NUM_LEDS,               \* configuration: strip length
    STAR_FADE_SPEED,        \* configuration: change per frame towards target
    STAR_NEW_TARGET_CHANCE, \* configuration: resample probability per frame
    star_current, star_target, star_hue, star_sat,
    led,                    \* the driver: last (h, s, v) set on each pixel
    pc,                     \* "idle": main loop;  "comet": inside run_comet()
    trail_len, direction, head_brightness, head, end, step,
    updates,                \* history: update_stars() calls so far
    comets,                 \* history: run_comet() calls so far
    resamples,              \* history: targets resampled so far
    heads,                  \* history: head of each sub-frame of this run
    paints,                 \* history: <<pos, k>> painted in each sub-frame
    ease_from,              \* history: star_current when the easing began
    ease_calls              \* history: update_stars() calls since then

config == <<NUM_LEDS, STAR_FADE_SPEED, STAR_NEW_TARGET_CHANCE>>
stars == <<star_current, star_target, star_hue, star_sat>>
comet == <<trail_len, direction, head_brightness, head, end, step>>
history == <<updates, comets, resamples, heads, paints, ease_from, ease_calls>>
vars == <<config, stars, led, pc, comet, history>>

Strip == 0 .. (NUM_LEDS - 1)

Min(a, b) == IF a < b THEN a ELSE b
Abs(a) == IF a < 0 THEN -a ELSE a
CeilDiv(a, b) == (a + b - 1) \div b

\* ------------------------------------------------------- random sources
\* uniform(0.0, 1.0), in eighths: x = j/8
UNIFORM_DRAWS == <<0, 1, 8>>
\* uniform(-STAR_HUE_SPREAD/2, STAR_HUE_SPREAD/2) and
\* uniform(0.0, STAR_SATURATION_MAX), drawn together
COLOUR_DRAWS == << <<-(STAR_HUE_SPREAD \div 2), 0>>,
                   <<STAR_HUE_SPREAD \div 2, STAR_SATURATION_MAX>> >>
\* the draws a seeded generator hands to the stars 0, 1, 2, ... in turn
Stream(draws, seed, stride) ==
    [i \in Strip |-> draws[((seed + i * stride) % Len(draws)) + 1]]
Streams(draws) ==
    {Stream(draws, seed, stride) : seed \in 0 .. (Len(draws) - 1),
                                   stride \in 0 .. (Len(draws) - 1)}
Range(seq) == {seq[n] : n \in 1 .. Len(seq)}
\* uniform(COMET_HEAD_BRIGHT_MIN, COMET_HEAD_BRIGHT_MAX)
HEAD_DRAWS == {(8 * One) \div 10, COMET_HEAD_BRIGHT_MAX}
\* random() < STAR_NEW_TARGET_CHANCE failed
NoDraw == -1

\* x = j/8;  x = x * x;  MIN + x * (MAX - MIN)
random_star_brightness(j) ==
    STAR_MIN_BRIGHT + ((STAR_MAX_BRIGHT - STAR_MIN_BRIGHT) \div (8 * 8)) * (j * j)

\* ------------------------------------------------------------ update_stars
\* the easing without its `elif cur > tgt` branch
Ease_NoDown(cur, tgt, speed) ==
    IF cur < tgt
    THEN (IF cur + speed > tgt THEN tgt ELSE cur + speed)
    ELSE cur
\* the easing without the clamp at the target
Ease_NoClamp(cur, tgt, speed) ==
    IF cur < tgt THEN cur + speed ELSE IF cur > tgt THEN cur - speed ELSE cur
\* the easing of one star (lines 106-118)
Ease(cur, tgt, speed) ==
    IF cur < tgt
    THEN (IF cur + speed > tgt THEN tgt ELSE cur + speed)
    ELSE IF cur > tgt
         THEN (IF cur - speed < tgt THEN tgt ELSE cur - speed)
         ELSE cur

\* the outcomes of random() < STAR_NEW_TARGET_CHANCE followed by uniform(),
\* one per star
ResampleDraws ==
    IF STAR_NEW_TARGET_CHANCE > 0
    THEN [Strip -> {NoDraw} \cup Range(UNIFORM_DRAWS)]
    ELSE {[i \in Strip |-> NoDraw]}

NumDrawn(draw) == Cardinality({i \in Strip : draw[i] # NoDraw})

NewTarget(draw, i) ==
    IF draw[i] # NoDraw THEN random_star_brightness(draw[i]) ELSE star_target[i]

\* update_stars() easing towards the old target before it resamples
update_stars_EaseFirst(draw) ==
    /\ star_target' = [i \in Strip |-> NewTarget(draw, i)]
    /\ star_current' = [i \in Strip |->
            Ease(star_current[i], star_target[i], STAR_FADE_SPEED)]
    /\ led' = [i \in Strip |-> <<star_hue[i], star_sat[i],
            Ease(star_current[i], star_target[i], STAR_FADE_SPEED)>>]
    /\ UNCHANGED <<star_hue, star_sat>>
    /\ updates' = updates + 1
    /\ resamples' = resamples + NumDrawn(draw)
    /\ ease_from' = [i \in Strip |->
            IF draw[i] # NoDraw THEN star_current[i] ELSE ease_from[i]]
    /\ ease_calls' = [i \in Strip |->
            IF draw[i] # NoDraw THEN 1 ELSE ease_calls[i] + 1]
\* update_stars() storing the new brightness in star_sat as well
update_stars_SatWrite(draw) ==
    /\ star_target' = [i \in Strip |-> NewTarget(draw, i)]
    /\ star_current' = [i \in Strip |->
            Ease(star_current[i], NewTarget(draw, i), STAR_FADE_SPEED)]
    /\ led' = [i \in Strip |-> <<star_hue[i], star_sat[i],
            Ease(star_current[i], NewTarget(draw, i), STAR_FADE_SPEED)>>]
    /\ star_sat' = [i \in Strip |->
            Ease(star_current[i], NewTarget(draw, i), STAR_FADE_SPEED)]
    /\ UNCHANGED star_hue
    /\ updates' = updates + 1
    /\ resamples' = resamples + NumDrawn(draw)
    /\ ease_from' = [i \in Strip |->
            IF draw[i] # NoDraw THEN star_current[i] ELSE ease_from[i]]
    /\ ease_calls' = [i \in Strip |->
            IF draw[i] # NoDraw THEN 1 ELSE ease_calls[i] + 1]
\* lines 98-121, given the draws of each star
update_stars(draw) ==
    /\ star_target' = [i \in Strip |-> NewTarget(draw, i)]
    /\ star_current' = [i \in Strip |->
            Ease(star_current[i], NewTarget(draw, i), STAR_FADE_SPEED)]
    /\ led' = [i \in Strip |-> <<star_hue[i], star_sat[i],
            Ease(star_current[i], NewTarget(draw, i), STAR_FADE_SPEED)>>]
    /\ UNCHANGED <<star_hue, star_sat>>
    /\ updates' = updates + 1
    /\ resamples' = resamples + NumDrawn(draw)
    /\ ease_from' = [i \in Strip |->
            IF draw[i] # NoDraw THEN star_current[i] ELSE ease_from[i]]
    /\ ease_calls' = [i \in Strip |->
            IF draw[i] # NoDraw THEN 1 ELSE ease_calls[i] + 1]

\* --------------------------------------------------------------- run_comet
\* frac = (trail_len - k) / float(trail_len), as a fraction
Frac(L, k) == <<L - k, L>>
\* a linear falloff
CometB_Linear(H, frac) == (H \div frac[2]) * frac[1]
\* head_brightness * (frac * frac)
CometB(H, frac) == (H \div (frac[2] * frac[2])) * (frac[1] * frac[1])
\* the saturation without the gradient
TailSat_Flat(frac) == COMET_SAT
\* COMET_SAT * frac
TailSat(frac) == (COMET_SAT \div frac[2]) * frac[1]
\* the boost without the factor AFTERGLOW_MAX
GlowBoost_Full(b) == b
\* comet_b * AFTERGLOW_MAX
GlowBoost(b) == (b \div AFTERGLOW_MAX[2]) * AFTERGLOW_MAX[1]

\* new_star_b set to the boost instead of raised by it
Afterglow_Replace(cur, b) == Min(GlowBoost(b), STAR_MAX_BRIGHT)
\* new_star_b without the cap at STAR_MAX_BRIGHT
Afterglow_NoCap(cur, b) == cur + GlowBoost(b)
\* new_star_b = min(star_current[pos] + glow_boost, STAR_MAX_BRIGHT)
Afterglow(cur, b) == Min(cur + GlowBoost(b), STAR_MAX_BRIGHT)

\* the trail drawn ahead of the head
TrailPos_Ahead(h, k, dir) == h + k * dir
\* pos = head - k * direction
TrailPos(h, k, dir) == h - k * dir
\* the range check letting the position NUM_LEDS through
OnStrip_Inclusive(pos) == 0 <= pos /\ pos <= NUM_LEDS
\* if 0 <= pos < NUM_LEDS
OnStrip(pos) == 0 <= pos /\ pos < NUM_LEDS

\* the body of `for k in range(trail_len)` at offset k; st holds the driver,
\* star_current and the <<pos, k>> pairs painted so far in this sub-frame
DrawOffset(k, st) ==
    LET pos == TrailPos(head, k, direction)
        frac == Frac(trail_len, k)
        comet_b == CometB(head_brightness, frac)
    IN  IF OnStrip(pos)
        THEN [led |-> [st.led EXCEPT ![pos] =
                        <<COMET_HUE, TailSat(frac), comet_b>>],
              cur |-> [st.cur EXCEPT ![pos] = Afterglow(@, comet_b)],
              paint |-> st.paint \cup {<<pos, k>>}]
        ELSE st

\* `for k in range(trail_len)` from offset k on
RECURSIVE DrawComet(_, _)
DrawComet(k, st) ==
    IF k >= trail_len THEN st
    ELSE CHOOSE r \in {DrawComet(k + 1, s) : s \in {DrawOffset(k, st)}} : TRUE

\* the strip positions under the trail in this sub-frame
Trail ==
    {pos \in {TrailPos(head, k, direction) : k \in 0 .. (trail_len - 1)} :
        OnStrip(pos)}

\* the pass without the background: the trail drawn over the driver as it is
SubFrame_NoBackground ==
    DrawComet(0, [led |-> led, cur |-> star_current, paint |-> {}])
\* one pass of the body of `while head != end`
SubFrame ==
    DrawComet(0, [led |-> [i \in Strip |->
                            <<star_hue[i], star_sat[i], star_current[i]>>],
                  cur |-> star_current,
                  paint |-> {}])

\* the trail lengths without the cap at NUM_LEDS
TrailLens_NoCap == COMET_MIN_TRAIL .. COMET_MAX_TRAIL
\* trail_len = randrange(COMET_MIN_TRAIL, COMET_MAX_TRAIL + 1), then capped
\* at NUM_LEDS: the trail lengths a run can get
TrailLens ==
    {(IF l > NUM_LEDS THEN NUM_LEDS ELSE l) :
        l \in COMET_MIN_TRAIL .. COMET_MAX_TRAIL}

\* the head entering at the near end of the strip, its trail not yet on it
StartComet_NoEntry(L, d, H) ==
    /\ trail_len' = L
    /\ direction' = (IF d = 0 THEN 1 ELSE -1)
    /\ head_brightness' = H
    /\ head' = (IF d = 0 THEN L ELSE NUM_LEDS - L)
    /\ end' = (IF d = 0 THEN NUM_LEDS + L ELSE -L)
    /\ step' = (IF d = 0 THEN 1 ELSE -1)
\* the exit bound one short of the strip's far side
StartComet_Short(L, d, H) ==
    /\ trail_len' = L
    /\ direction' = (IF d = 0 THEN 1 ELSE -1)
    /\ head_brightness' = H
    /\ head' = (IF d = 0 THEN -L ELSE NUM_LEDS + L)
    /\ end' = (IF d = 0 THEN NUM_LEDS + L - 1 ELSE -L + 1)
    /\ step' = (IF d = 0 THEN 1 ELSE -1)
\* the head advancing two positions per pass
StartComet_Step2(L, d, H) ==
    /\ trail_len' = L
    /\ direction' = (IF d = 0 THEN 1 ELSE -1)
    /\ head_brightness' = H
    /\ head' = (IF d = 0 THEN -L ELSE NUM_LEDS + L)
    /\ end' = (IF d = 0 THEN NUM_LEDS + L ELSE -L)
    /\ step' = (IF d = 0 THEN 2 ELSE -2)
\* lines 130-144: the other draws and the entry and exit bounds
StartComet(L, d, H) ==
    /\ trail_len' = L
    /\ direction' = (IF d = 0 THEN 1 ELSE -1)
    /\ head_brightness' = H
    /\ head' = (IF d = 0 THEN -L ELSE NUM_LEDS + L)
    /\ end' = (IF d = 0 THEN NUM_LEDS + L ELSE -L)
    /\ step' = (IF d = 0 THEN 1 ELSE -1)

\* ---------------------------------------------------------------- actions
\* what the behaviour has done so far, which the model bounds
Work == updates + resamples + comets

\* one pass of the main loop on which no comet is launched
TickIdle ==
    /\ pc = "idle"
    /\ \E draw \in ResampleDraws :
        /\ Work + 1 + NumDrawn(draw) <= MaxWork
        /\ update_stars(draw)
    /\ UNCHANGED <<config, pc, comet, comets, heads, paints>>

\* one pass of the main loop on which random() < comet_chance: update_stars()
\* and the entry of run_comet() up to the first test of the while loop
TickSpawn ==
    /\ pc = "idle"
    /\ \E draw \in ResampleDraws :
        /\ Work + 2 + NumDrawn(draw) <= MaxWork
        /\ update_stars(draw)
    /\ \E L \in TrailLens, d \in {0, 1}, H \in HEAD_DRAWS :
        StartComet(L, d, H)
    /\ pc' = "comet"
    /\ comets' = comets + 1
    /\ heads' = << >>
    /\ paints' = << >>
    /\ UNCHANGED config

\* one sub-frame of the comet: background, trail, afterglow, sleep, advance
CometSubFrame ==
    /\ pc = "comet"
    /\ head # end
    /\ \E st \in {SubFrame} :
           /\ led' = st.led
           /\ star_current' = st.cur
           /\ paints' = Append(paints, st.paint)
           /\ ease_from' = [i \in Strip |->
                IF i \in Trail THEN st.cur[i] ELSE ease_from[i]]
           /\ ease_calls' = [i \in Strip |->
                IF i \in Trail THEN 0 ELSE ease_calls[i]]
    /\ heads' = Append(heads, head)
    /\ head' = head + step
    /\ UNCHANGED <<config, star_target, star_hue, star_sat, pc, trail_len,
                   direction, head_brightness, end, step, updates, comets,
                   resamples>>

\* run_comet() returning before the head has reached the exit bound
CometReturn_Early ==
    /\ pc = "comet"
    /\ pc' = "idle"
    /\ UNCHANGED <<config, stars, led, comet, history>>
\* the while loop exits and run_comet() returns to the main loop
CometReturn ==
    /\ pc = "comet"
    /\ head = end
    /\ pc' = "idle"
    /\ UNCHANGED <<config, stars, led, comet, history>>

Next == TickIdle \/ TickSpawn \/ CometSubFrame \/ CometReturn

\* ------------------------------------------------------------ init_stars
\* the state init_stars() leaves, given the draws of each star
InitStars(cd, td, col) ==
    /\ star_current = [i \in Strip |-> random_star_brightness(cd[i])]
    /\ star_target = [i \in Strip |-> random_star_brightness(td[i])]
    /\ star_hue = [i \in Strip |-> 220 + col[i][1]]
    /\ star_sat = [i \in Strip |-> col[i][2]]

InitRest ==
    /\ led = [i \in Strip |-> <<0, 0, 0>>]
    /\ pc = "idle"
    /\ trail_len = 0 /\ direction = 1 /\ head_brightness = 0
    /\ head = 0 /\ end = 0 /\ step = 1
    /\ updates = 0 /\ comets = 0 /\ resamples = 0
    /\ heads = << >> /\ paints = << >>
    /\ ease_from = star_current
    /\ ease_calls = [i \in Strip |-> 0]

\* the program as configured, on a short strip
Init ==
    /\ NUM_LEDS \in 1 .. MaxLeds
    /\ STAR_FADE_SPEED = One \div 100
    /\ STAR_NEW_TARGET_CHANCE = One \div 100
    /\ \E cd \in Streams(UNIFORM_DRAWS), td \in Streams(UNIFORM_DRAWS),
          col \in {Stream(COLOUR_DRAWS, seed, 1) : seed \in 0 .. 1} :
            InitStars(cd, td, col)
    /\ InitRest

Spec == Init /\ [][Next]_vars

\* comet runs on strips of every length up to MaxCometLeds, over a starfield
\* at rest: every star drew x = 0 twice and no target is resampled
InitComet ==
    /\ NUM_LEDS \in 1 .. MaxCometLeds
    /\ STAR_FADE_SPEED = One \div 100
    /\ STAR_NEW_TARGET_CHANCE = 0
    /\ InitStars(Stream(UNIFORM_DRAWS, 0, 0), Stream(UNIFORM_DRAWS, 0, 0),
                 Stream(COLOUR_DRAWS, 0, 1))
    /\ InitRest

SpecComet == InitComet /\ [][Next]_vars

\* the easing alone: update_stars() on the inputs of the end-to-end scenarios
\* (any current and target brightness in tenths, a fade speed of 0.1 or 0.3,
\* no resampling, one star or five alike)
Tenths == {(n * One) \div 10 : n \in 0 .. 10}

InitEase ==
    /\ NUM_LEDS \in {1, 5}
    /\ STAR_FADE_SPEED \in {One \div 10, (3 * One) \div 10}
    /\ STAR_NEW_TARGET_CHANCE = 0
    /\ \E c \in Tenths, t \in Tenths :
        /\ star_current = [i \in Strip |-> c]
        /\ star_target = [i \in Strip |-> t]
    /\ star_hue = [i \in Strip |-> 220]
    /\ star_sat = [i \in Strip |-> 0]
    /\ InitRest

NextEase == TickIdle

SpecEase == InitEase /\ [][NextEase]_vars

\* the comet runs, with the progress the sequential program makes inside
\* run_comet(): every sleep returns, so the loop and the return are taken
FairSpecComet ==
    SpecComet /\ WF_vars(CometSubFrame) /\ WF_vars(CometReturn)

\* ------------------------------------------------------------------ claims
Max(a, b) == IF a > b THEN a ELSE b
Last(seq) == seq[Len(seq)]

\* C1: after init_stars(), after every update_stars() call and every comet
\* sub-frame, every star's current and target brightness lie in
\* [STAR_MIN_BRIGHT, STAR_MAX_BRIGHT].
C1_BrightnessInRange ==
    \A i \in Strip :
        /\ STAR_MIN_BRIGHT <= star_current[i]
        /\ star_current[i] <= STAR_MAX_BRIGHT
        /\ STAR_MIN_BRIGHT <= star_target[i]
        /\ star_target[i] <= STAR_MAX_BRIGHT

\* a comet sub-frame has just boosted a star up to the cap, after a resample
C1_Witness ==
    /\ pc = "comet" /\ Len(paints) > 0 /\ resamples > 0
    /\ \E p \in Last(paints) :
        /\ star_current[p[1]] = STAR_MAX_BRIGHT
        /\ star_target[p[1]] < STAR_MAX_BRIGHT

\* the update_stars() calls a star needs to reach its target
CallsNeeded(i) ==
    CeilDiv(Abs(star_target[i] - ease_from[i]), STAR_FADE_SPEED)

\* C2: a star whose target was set (or whose brightness a comet boosted) at
\* brightness c, with target t, is at t after ceil(|t - c| / STAR_FADE_SPEED)
\* update_stars() calls and on every later call, until the next resample or
\* afterglow write.
C2_Convergence ==
    \A i \in Strip :
        ease_calls[i] >= CallsNeeded(i) => star_current[i] = star_target[i]

\* a star that started away from a resampled target has reached it, through
\* the clamp, and has stayed there for a further call
C2_Witness ==
    \E i \in Strip :
        /\ resamples > 0
        /\ ease_from[i] # star_target[i]
        /\ Abs(star_target[i] - ease_from[i]) % STAR_FADE_SPEED # 0
        /\ ease_calls[i] > CallsNeeded(i)
        /\ star_current[i] = star_target[i]

\* the step the easing is to take from c towards t
StepTowards(c, t, speed) ==
    IF c < t THEN Min(c + speed, t)
    ELSE IF c > t THEN Max(c - speed, t) ELSE c

ScenarioA ==
    (/\ NUM_LEDS = 5 /\ STAR_FADE_SPEED = One \div 10
     /\ \A i \in Strip : ease_from[i] = One \div 2 /\ star_target[i] = One \div 2)
    => \A i \in Strip : star_current[i] = One \div 2

ScenarioB ==
    (/\ NUM_LEDS = 1 /\ STAR_FADE_SPEED = (3 * One) \div 10
     /\ ease_from[0] = 0 /\ star_target[0] = One)
    => star_current[0] = <<0, (3 * One) \div 10, (6 * One) \div 10,
                            (9 * One) \div 10, One>>[Min(ease_calls[0], 4) + 1]

\* C3: an update_stars() call that leaves a star's target alone moves the star
\* one STAR_FADE_SPEED step towards the target, stopping at the target; a
\* star at its target stays (scenario A), and a star at 0.0 with target 1.0
\* and step 0.3 goes 0.3, 0.6, 0.9, 1.0 (scenario B).
C3_EaseStep ==
    /\ [][updates' = updates + 1 =>
            \A i \in Strip :
                star_target'[i] = star_target[i] =>
                    star_current'[i] = StepTowards(star_current[i],
                                            star_target[i], STAR_FADE_SPEED)]_vars
    /\ []ScenarioA
    /\ []ScenarioB

\* scenario B after its four calls
C3_Witness ==
    /\ NUM_LEDS = 1 /\ STAR_FADE_SPEED = (3 * One) \div 10
    /\ ease_from[0] = 0 /\ star_target[0] = One
    /\ ease_calls[0] = 4 /\ star_current[0] = One

\* C4: a forward comet run processes the head positions -trail_len,
\* -trail_len + 1, ..., NUM_LEDS + trail_len - 1, each once and in this
\* order, and then returns.
C4_ForwardTraversal ==
    (comets > 0 /\ direction = 1) =>
        /\ Len(heads) <= NUM_LEDS + 2 * trail_len
        /\ \A j \in 1 .. Len(heads) : heads[j] = -trail_len + (j - 1)
        /\ pc = "comet" => head = -trail_len + Len(heads)
        /\ pc = "idle" => Len(heads) = NUM_LEDS + 2 * trail_len

\* a forward run with an uncapped trail has returned
C4_Witness ==
    /\ pc = "idle" /\ comets > 0 /\ direction = 1
    /\ trail_len >= COMET_MIN_TRAIL /\ trail_len < NUM_LEDS
    /\ Last(heads) = NUM_LEDS + trail_len - 1

\* the sub-frame of scenario C in which the head is at position h
ScenarioCFrame(h) ==
    /\ pc = "comet" /\ NUM_LEDS = 10 /\ trail_len = 4 /\ direction = 1
    /\ head_brightness = (8 * One) \div 10
    /\ Len(heads) > 0 /\ heads[1] = -4 /\ Last(heads) = h

\* C5 as stated: in scenario C (trail_len 4, head_brightness 0.8, strip of
\* 10, forward from -4), in the sub-frame with the head at 0 the only offset
\* on the strip is k = 3 at pos 0, and the brightness drawn there is 0.05.
C5_ScenarioC_AsStated ==
    ScenarioCFrame(0) =>
        /\ Last(paints) = {<<0, 3>>}
        /\ led[0][3] = (5 * One) \div 100

\* C5 amended: in scenario C, in the sub-frame with the head at 0 the only
\* offset on the strip is k = 0 at pos 0, with frac = 1, and the brightness
\* drawn there is 0.8; offset k = 3 is at pos 0 in the sub-frame with the
\* head at 3, with frac = 1/4, and the brightness drawn there is 0.05.
C5_ScenarioC ==
    /\ ScenarioCFrame(0) =>
            /\ Last(paints) = {<<0, 0>>}
            /\ led[0][3] = (8 * One) \div 10
    /\ ScenarioCFrame(3) =>
            /\ Last(paints) = {<<3, 0>>, <<2, 1>>, <<1, 2>>, <<0, 3>>}
            /\ led[0][3] = (5 * One) \div 100

\* scenario C with the head at 0
C5_Witness == ScenarioCFrame(0) /\ led[0][1] = COMET_HUE

C7_TwoStates ==
    /\ pc \in {"idle", "comet"}
    /\ pc = "comet" => ENABLED (CometSubFrame \/ CometReturn)
    /\ (pc = "idle" /\ Work < MaxWork) => ENABLED TickIdle

C7_Step ==
    /\ (pc = "idle" /\ pc' = "comet") =>
            (comets' = comets + 1 /\ updates' = updates + 1)
    /\ (pc = "comet" /\ pc' = "idle") =>
            (head = end /\ UNCHANGED <<stars, led, history>>)
    /\ pc = "comet" =>
            /\ comets' = comets
            /\ updates' = updates /\ resamples' = resamples
            /\ star_target' = star_target
            /\ \A i \in Strip \ Trail : star_current'[i] = star_current[i]

\* C7: the scheduler is in Idle-tick or in Comet-active and never stops; it
\* enters Comet-active only by launching a comet, leaves it only when the
\* comet run is complete, runs one comet at a time, and while a comet runs
\* no update_stars() step is taken: no target is resampled and no star off
\* the trail changes.
C7_Scheduler == []C7_TwoStates /\ [][C7_Step]_vars

\* a comet run has returned and update_stars() has run again on every star
C7_Witness ==
    /\ pc = "idle" /\ comets > 0 /\ Len(heads) > 0
    /\ \A i \in Strip : ease_calls[i] > 0

\* the sub-frames the run has still to process
C8_Remaining == NUM_LEDS + 2 * trail_len - Len(heads)

\* C8: a comet run, in either direction and with any trail length, is
\* NUM_LEDS + 2 * trail_len sub-frames long: the head is that far from the
\* exit bound at the start and one step nearer after each sub-frame, the
\* loop exits exactly when none remains, and the run returns to Idle-tick.
C8_CometTerminates ==
    /\ [](pc = "comet" =>
            /\ (end - head) * step = C8_Remaining
            /\ C8_Remaining >= 0
            /\ head = end <=> C8_Remaining = 0)
    /\ []((pc = "idle" /\ comets > 0) => C8_Remaining = 0)
    /\ (pc = "comet" ~> pc = "idle")

\* a backward run has returned after all its sub-frames and update_stars()
\* has run again
C8_Witness ==
    /\ pc = "idle" /\ comets > 0 /\ direction = -1
    /\ Len(heads) = NUM_LEDS + 2 * trail_len
    /\ \E i \in Strip : ease_calls[i] > 0

\* C9 as stated: in the first and in the last sub-frame of a comet run, in
\* either direction, no trail position is on the strip.
C9_TrailOffStripAtBothEnds ==
    (pc = "comet" /\ Len(paints) > 0) =>
        /\ paints[1] = {}
        /\ head = end => Last(paints) = {}

\* what sub-frame j of a forward run paints
ForwardPaint(j) ==
    LET h == -trail_len + (j - 1)
    IN  {<<TrailPos(h, k, 1), k>> :
            k \in {o \in 0 .. (trail_len - 1) : OnStrip(TrailPos(h, o, 1))}}

Mirror(paint) == {<<NUM_LEDS - 1 - p[1], p[2]>> : p \in paint}

\* C10 as stated: sub-frame j of a backward run paints what sub-frame j of
\* the forward run with the same trail length paints, with every position p
\* replaced by NUM_LEDS - 1 - p.
C10_BackwardMirrorsForward ==
    (comets > 0 /\ direction = -1) =>
        \A j \in 1 .. Len(paints) : paints[j] = Mirror(ForwardPaint(j))

\* C11: a comet sub-frame sets star_current at every position it paints with
\* brightness b to min(star_current + b * AFTERGLOW_MAX, STAR_MAX_BRIGHT) and
\* leaves star_current alone at every other position; no step of a comet
\* run changes any star_target.
C11_AfterglowWrite ==
    [][pc = "comet" =>
        /\ star_target' = star_target
        /\ \A i \in Strip :
            star_current'[i] =
                IF heads' # heads /\ i \in Trail
                THEN Min(star_current[i] + (2 * led'[i][3]) \div 5,
                         STAR_MAX_BRIGHT)
                ELSE star_current[i]]_vars

\* a sub-frame has boosted a star above its target and short of the cap,
\* while another star is at the cap
C11_Witness ==
    /\ pc = "comet" /\ Len(paints) > 0
    /\ \E p \in Last(paints) :
        /\ star_current[p[1]] < STAR_MAX_BRIGHT
        /\ star_current[p[1]] > star_target[p[1]]
    /\ \E i \in Strip : star_current[i] = STAR_MAX_BRIGHT

\* C12: star_hue and star_sat keep the values init_stars() gave them, through
\* every update_stars() call and comet run; the hue is within
\* STAR_HUE_SPREAD/2 degrees of 220 and the saturation in
\* [0, STAR_SATURATION_MAX].
C12_HueSatImmutable ==
    /\ [][star_hue' = star_hue /\ star_sat' = star_sat]_vars
    /\ [](\A i \in Strip :
            /\ 2 * (220 - star_hue[i]) <= STAR_HUE_SPREAD
            /\ 2 * (star_hue[i] - 220) <= STAR_HUE_SPREAD
            /\ 0 <= star_sat[i] /\ star_sat[i] <= STAR_SATURATION_MAX)

\* after update_stars() calls and a comet run, two stars still at the two
\* ends of the hue and saturation ranges
C12_Witness ==
    /\ pc = "idle" /\ comets > 0 /\ updates > 1
    /\ \E i, j \in Strip :
        /\ 2 * (220 - star_hue[i]) = STAR_HUE_SPREAD /\ star_sat[i] = 0
        /\ 2 * (star_hue[j] - 220) = STAR_HUE_SPREAD
        /\ star_sat[j] = STAR_SATURATION_MAX

\* C13: every index at which the driver or a star array is read or written is
\* in [0, NUM_LEDS): the arrays and the driver hold exactly the positions of
\* the strip, and every position a comet sub-frame has painted (and boosted)
\* is one of them, also when the head and part of the trail are off the strip.
C13_IndexSafety ==
    /\ DOMAIN star_current = Strip /\ DOMAIN star_target = Strip
    /\ DOMAIN star_hue = Strip /\ DOMAIN star_sat = Strip
    /\ DOMAIN led = Strip
    /\ \A j \in 1 .. Len(paints) : \A p \in paints[j] : p[1] \in Strip

\* a sub-frame with the head beyond the strip and part of the trail on it
C13_Witness ==
    /\ pc = "comet" /\ Len(paints) > 0
    /\ Last(heads) \notin Strip
    /\ Last(paints) # {}
    /\ Cardinality(Last(paints)) < trail_len

\* C14 as stated: on a strip of any length, the trail length of a comet run
\* is at least COMET_MIN_TRAIL and at most min(COMET_MAX_TRAIL, NUM_LEDS).
C14_TrailLength_AsStated ==
    comets > 0 =>
        /\ COMET_MIN_TRAIL <= trail_len
        /\ trail_len <= Min(COMET_MAX_TRAIL, NUM_LEDS)

\* C14 amended: on a strip of any length, the trail length of a comet run is
\* at least min(COMET_MIN_TRAIL, NUM_LEDS) and at most
\* min(COMET_MAX_TRAIL, NUM_LEDS).
C14_TrailLength ==
    comets > 0 =>
        /\ Min(COMET_MIN_TRAIL, NUM_LEDS) <= trail_len
        /\ trail_len <= Min(COMET_MAX_TRAIL, NUM_LEDS)

\* a comet on a strip shorter than COMET_MAX_TRAIL with its trail capped at
\* the strip length
C14_Witness ==
    /\ comets > 0 /\ NUM_LEDS >= COMET_MIN_TRAIL /\ NUM_LEDS < COMET_MAX_TRAIL
    /\ trail_len = NUM_LEDS

\* the trail offset that is at position i when the head is at h
OffsetAt(i, h) == (h - i) * direction

\* C15: at the end of a comet sub-frame every strip position off the trail
\* shows its star (hue, saturation, current brightness as at the start of
\* the sub-frame) and every position on the trail shows
\* (COMET_HUE, COMET_SAT * frac, head_brightness * frac^2) of its offset:
\* nothing an earlier sub-frame drew is left.
C15_NoCometPixelPersists ==
    [][(pc = "comet" /\ heads' # heads) =>
        \A i \in Strip :
            LET k == OffsetAt(i, head)
                L == trail_len
            IN  led'[i] =
                    IF k \in 0 .. (L - 1)
                    THEN <<COMET_HUE, (COMET_SAT * (L - k)) \div L,
                           (head_brightness \div (L * L)) * ((L - k) * (L - k))>>
                    ELSE <<star_hue[i], star_sat[i], star_current[i]>>]_vars

\* a position the previous sub-frame painted is off the trail now and shows
\* its star again
C15_Witness ==
    /\ pc = "comet" /\ Len(paints) > 1
    /\ \E p \in paints[Len(paints) - 1] :
        /\ \A q \in Last(paints) : q[1] # p[1]
        /\ led[p[1]] = <<star_hue[p[1]], star_sat[p[1]], star_current[p[1]]>>
        /\ led[p[1]][1] # COMET_HUE

\* the saturation on the driver at a painted position as a multiple of
\* COMET_SAT / L^2, and the brightness as a multiple of head_brightness / L^2
SatShare(p) == (led[p[1]][2] * (trail_len * trail_len)) \div COMET_SAT
BrightShare(p) == led[p[1]][3] \div (head_brightness \div (trail_len * trail_len))

\* C16 as stated: the saturation drawn at trail offset k is COMET_SAT * frac,
\* and for 1 <= k <= L-1 it is a smaller fraction of COMET_SAT than the
\* brightness drawn there is of head_brightness.
C16_SaturationFadesFaster_AsStated ==
    (pc = "comet" /\ Len(paints) > 0) =>
        \A p \in Last(paints) :
            /\ led[p[1]][2] * trail_len = COMET_SAT * (trail_len - p[2])
            /\ p[2] >= 1 => SatShare(p) < BrightShare(p)

\* C16 amended: the saturation drawn at trail offset k is COMET_SAT * frac,
\* and for 1 <= k <= L-1 it is a larger fraction of COMET_SAT than the
\* brightness drawn there is of head_brightness (the brightness fades
\* faster than the saturation).
C16_BrightnessFadesFaster ==
    (pc = "comet" /\ Len(paints) > 0) =>
        \A p \in Last(paints) :
            /\ led[p[1]][2] * trail_len = COMET_SAT * (trail_len - p[2])
            /\ p[2] >= 1 => SatShare(p) > BrightShare(p)

\* a sub-frame that painted the tail end of a trail of the greatest length
C16_Witness ==
    /\ pc = "comet" /\ Len(paints) > 0
    /\ trail_len = COMET_MAX_TRAIL
    /\ \E p \in Last(paints) : p[2] = trail_len - 1

PaintsOf(p, k) == {j \in 1 .. Len(paints) : <<p, k>> \in paints[j]}

\* C18: over a complete comet run, in either direction, every strip position
\* is painted (and boosted) exactly once at each trail offset 0 .. L-1, so
\* exactly L times; during the run, at most once at each offset.
C18_EveryPositionEveryOffsetOnce ==
    comets > 0 =>
        \A p \in Strip : \A k \in 0 .. (trail_len - 1) :
            /\ Cardinality(PaintsOf(p, k)) <= 1
            /\ (pc = "idle" \/ head = end) => Cardinality(PaintsOf(p, k)) = 1

\* a complete backward run with an uncapped trail
C18_Witness ==
    /\ pc = "comet" /\ head = end /\ direction = -1
    /\ trail_len >= COMET_MIN_TRAIL /\ trail_len < NUM_LEDS
    /\ Len(paints) = NUM_LEDS + 2 * trail_len

\* what a step taken inside run_comet() does to the stars' brightness
C19_Step ==
    pc = "comet" =>
        \A i \in Strip :
            /\ star_current'[i] >= star_current[i]
            /\ star_current[i] = STAR_MAX_BRIGHT =>
                    star_current'[i] = STAR_MAX_BRIGHT

\* C19: no step of a comet run lowers any star_current, so a star that has
\* reached STAR_MAX_BRIGHT stays there until the run has returned.
C19_NoDecreaseDuringComet == [][C19_Step]_vars

\* a star at the cap has been painted again and is at the cap still
C19_Witness ==
    /\ pc = "comet" /\ Len(paints) > 1
    /\ \E p \in Last(paints) : \E q \in paints[Len(paints) - 1] :
        /\ p[1] = q[1]
        /\ star_current[p[1]] = STAR_MAX_BRIGHT
        /\ ease_from[p[1]] = STAR_MAX_BRIGHT
        /\ star_target[p[1]] < STAR_MAX_BRIGHT

====
